---- MODULE Spec2Model ----
(***************************************************************************)
(* The in-memory retrieval engine of backend/rag_engine.py and the query   *)
(* endpoint of backend/app.py.                                             *)
(*                                                                         *)
(* A Python str is a sequence of one-character strings, a dict is a        *)
(* function whose DOMAIN is its key set, the insertion-ordered dict        *)
(* COURSE_DATA is a sequence of (key, value) entries.                      *)
(***************************************************************************)
EXTENDS Integers, Sequences, FiniteSets, TLC

VARIABLES
  COURSE_DATA,  \* the store: the entries (key, value) of the dict, in order
  loaded,       \* history: the input of the last load_courses call (none
                \* after a clear) and whether the call returned
  last,         \* history: the last call, its arguments and what it returned
  finished,     \* history: per caller, the last load_courses call that it
                \* ran step by step to its end: the input and whether the
                \* call returned
  loading       \* per caller, the load_courses call it is in the middle of:
                \* the input, the index of the next course, the store it
                \* found (history)

vars == <<COURSE_DATA, loaded, last, loading, finished>>

(***************************************************************************)
(* Python str operations                                                   *)
(***************************************************************************)

\* the whitespace characters of the alphabet (str.isspace)
Whitespace == {" ", "\n", "\t"}

IsSpace(c) == c \in Whitespace

\* the upper-case letters, each with its lower-case letter
Letters ==
  {<<"A", "a">>, <<"B", "b">>, <<"C", "c">>, <<"D", "d">>, <<"E", "e">>,
   <<"F", "f">>, <<"G", "g">>, <<"H", "h">>, <<"I", "i">>, <<"J", "j">>,
   <<"K", "k">>, <<"L", "l">>, <<"M", "m">>, <<"N", "n">>, <<"O", "o">>,
   <<"P", "p">>, <<"Q", "q">>, <<"R", "r">>, <<"S", "s">>, <<"T", "t">>,
   <<"U", "u">>, <<"V", "v">>, <<"W", "w">>, <<"X", "x">>, <<"Y", "y">>,
   <<"Z", "z">>}

\* the lower-case letter of each upper-case letter
LowerOf == [u \in {l[1] : l \in Letters} |-> (CHOOSE l \in Letters : l[1] = u)[2]]

\* str.lower() on one character
LowerChar(c) == IF c \in DOMAIN LowerOf THEN LowerOf[c] ELSE c

\* str.lower(); the concatenation makes the value a tuple
Lower(s) == <<>> \o [i \in 1..Len(s) |-> LowerChar(s[i])]

\* str.strip(): leading and trailing whitespace removed
Strip(s) ==
  IF \A i \in 1..Len(s) : IsSpace(s[i]) THEN <<>>
  ELSE LET lo == CHOOSE i \in 1..Len(s) :
                   ~IsSpace(s[i]) /\ \A k \in 1..(i - 1) : IsSpace(s[k])
           hi == CHOOSE i \in 1..Len(s) :
                   ~IsSpace(s[i]) /\ \A k \in (i + 1)..Len(s) : IsSpace(s[k])
       IN SubSeq(s, lo, hi)

\* the positions where a maximal run of non-whitespace starts
WordStarts(s) ==
  {i \in 1..Len(s) : ~IsSpace(s[i]) /\ (i = 1 \/ IsSpace(s[i - 1]))}

\* the last position of the run of non-whitespace starting at i
WordEnd(s, i) ==
  CHOOSE j \in i..Len(s) :
    /\ j = Len(s) \/ IsSpace(s[j + 1])
    /\ \A k \in i..j : ~IsSpace(s[k])

RECURSIVE SplitFrom(_, _)
SplitFrom(s, starts) ==
  IF starts = {} THEN <<>>
  ELSE LET i == CHOOSE x \in starts : \A y \in starts : x <= y
       IN <<SubSeq(s, i, WordEnd(s, i))>> \o SplitFrom(s, starts \ {i})

\* str.split() without arguments: the maximal runs of non-whitespace, in order
Split(s) == SplitFrom(s, WordStarts(s))

\* set(seq)
ToSet(seq) == {seq[i] : i \in 1..Len(seq)}

\* c * n; the concatenation makes the value a tuple
Rep(c, n) == <<>> \o [i \in 1..n |-> c]

RECURSIVE Join(_, _)
\* sep.join(parts)
Join(sep, parts) ==
  IF parts = <<>> THEN <<>>
  ELSE IF Len(parts) = 1 THEN parts[1]
  ELSE parts[1] \o sep \o Join(sep, Tail(parts))

(***************************************************************************)
(* load_courses                                                            *)
(***************************************************************************)

\* the chunk size of load_courses
ChunkLimit == 200

\* CourseChunk(course_id, title, content, chunk_index)
CourseChunk(course_id, title, content, chunk_index) ==
  [course_id |-> course_id, title |-> title, content |-> content,
   chunk_index |-> chunk_index]

\* dict.get(key, default)
Get(d, key, default) == IF key \in DOMAIN d THEN d[key] ELSE default

\* Mutant of Overflows: the test looks at the chunk text alone.
OverflowsLate(chunk_text, word) == Len(chunk_text) > ChunkLimit

\* Mutant of Overflows: a word that fills the chunk text to the limit does
\* not fit.
OverflowsAtLimit(chunk_text, word) ==
  Len(chunk_text) + Len(word) + 1 >= ChunkLimit

\* the test of line 30: the word does not fit into the running chunk text
Overflows(chunk_text, word) == Len(chunk_text) + Len(word) + 1 > ChunkLimit

\* Mutant of WordLoop: chunk_idx is not incremented after a chunk.
RECURSIVE WordLoopSameIndex(_, _, _, _, _)
WordLoopSameIndex(course, words, chunks, chunk_text, chunk_idx) ==
  IF words = <<>>
  THEN [chunks |-> chunks, chunk_text |-> chunk_text, chunk_idx |-> chunk_idx,
        ok |-> TRUE]
  ELSE LET word == Head(words)
       IN IF Len(chunk_text) + Len(word) + 1 > ChunkLimit
          THEN IF "title" \notin DOMAIN course
               THEN [chunks |-> chunks, chunk_text |-> chunk_text,
                     chunk_idx |-> chunk_idx, ok |-> FALSE]
               ELSE WordLoopSameIndex(course, Tail(words),
                                      Append(chunks,
                                             [course_id |-> course.id,
                                              title |-> course.title,
                                              content |-> Strip(chunk_text),
                                              chunk_index |-> chunk_idx]),
                                      word \o <<" ">>, chunk_idx)
          ELSE WordLoopSameIndex(course, Tail(words), chunks,
                                 chunk_text \o word \o <<" ">>, chunk_idx)

\* The state of the loop over words: chunks, chunk_text, chunk_idx, and
\* whether course["title"] has raised.
RECURSIVE WordLoop(_, _, _, _, _)
WordLoop(course, words, chunks, chunk_text, chunk_idx) ==
  IF words = <<>>
  THEN [chunks |-> chunks, chunk_text |-> chunk_text, chunk_idx |-> chunk_idx,
        ok |-> TRUE]
  ELSE LET word == Head(words)
       IN IF Overflows(chunk_text, word)
          THEN IF "title" \notin DOMAIN course
               THEN [chunks |-> chunks, chunk_text |-> chunk_text,
                     chunk_idx |-> chunk_idx, ok |-> FALSE]
               ELSE WordLoop(course, Tail(words),
                             Append(chunks,
                                    CourseChunk(course.id, course.title,
                                                Strip(chunk_text), chunk_idx)),
                             word \o <<" ">>, chunk_idx + 1)
          ELSE WordLoop(course, Tail(words), chunks,
                        chunk_text \o word \o <<" ">>, chunk_idx)

\* Mutant of CourseChunks: the chunk text left after the last word is dropped.
CourseChunksNoTail(course) ==
  LET after == WordLoop(course, Split(Get(course, "content", <<>>)),
                        <<>>, <<>>, 0)
  IN [ok |-> after.ok, chunks |-> IF after.ok THEN after.chunks ELSE <<>>]

\* Lines 23-46 for one course that has an id: the chunks of the course;
\* ok is FALSE when course["title"] raised KeyError.
CourseChunks(course) ==
  LET content == Get(course, "content", <<>>)
      words == Split(content)
      after == WordLoop(course, words, <<>>, <<>>, 0)
  IN IF ~after.ok THEN [ok |-> FALSE, chunks |-> <<>>]
     ELSE IF Strip(after.chunk_text) # <<>>
     THEN IF "title" \notin DOMAIN course THEN [ok |-> FALSE, chunks |-> <<>>]
          ELSE [ok |-> TRUE,
                chunks |-> Append(after.chunks,
                                  CourseChunk(course.id, course.title,
                                              Strip(after.chunk_text),
                                              after.chunk_idx))]
     ELSE [ok |-> TRUE, chunks |-> after.chunks]

\* the keys of the ordered dict, in iteration order
Keys(data) == [i \in 1..Len(data) |-> data[i].key]

\* Mutant of SetItem: the value of an old key is kept.
SetDefault(data, key, value) ==
  IF \E i \in 1..Len(data) : data[i].key = key
  THEN data
  ELSE Append(data, [key |-> key, value |-> value])

\* dict[key] = value: a new key goes last, an old key keeps its position
SetItem(data, key, value) ==
  IF \E i \in 1..Len(data) : data[i].key = key
  THEN [i \in 1..Len(data) |->
          IF data[i].key = key THEN [key |-> key, value |-> value] ELSE data[i]]
  ELSE Append(data, [key |-> key, value |-> value])

\* Mutant of CourseLoop: a course without chunks is not stored.
RECURSIVE CourseLoopSkipEmpty(_, _)
CourseLoopSkipEmpty(courses, data) ==
  IF courses = <<>> THEN [data |-> data, ok |-> TRUE]
  ELSE LET course == Head(courses)
       IN IF "id" \notin DOMAIN course THEN [data |-> data, ok |-> FALSE]
          ELSE LET built == CourseChunks(course)
               IN IF ~built.ok THEN [data |-> data, ok |-> FALSE]
                  ELSE CourseLoopSkipEmpty(
                         Tail(courses),
                         IF built.chunks = <<>> THEN data
                         ELSE SetItem(data, course.id, built.chunks))

\* The loop of lines 21-47 from the store `data` on: the store it leaves and
\* whether it ran to the end.
RECURSIVE CourseLoop(_, _)
CourseLoop(courses, data) ==
  IF courses = <<>> THEN [data |-> data, ok |-> TRUE]
  ELSE LET course == Head(courses)
       IN IF "id" \notin DOMAIN course THEN [data |-> data, ok |-> FALSE]
          ELSE LET built == CourseChunks(course)
               IN IF ~built.ok THEN [data |-> data, ok |-> FALSE]
                  ELSE CourseLoop(Tail(courses),
                                  SetItem(data, course.id, built.chunks))

\* Mutant of load_courses: the store is not cleared first.
load_courses_no_clear(courses) == CourseLoop(courses, COURSE_DATA)

\* load_courses(courses): COURSE_DATA.clear(), then the loop
load_courses(courses) == CourseLoop(courses, <<>>)

(***************************************************************************)
(* retrieve                                                                *)
(***************************************************************************)

\* the default of the parameter top_k (retrieve, QueryRequest)
DefaultTopK == 3

\* Mutant of Terms: the text is not lower-cased.
TermsCased(text) == ToSet(Split(text))

\* set(text.lower().split())
Terms(text) == ToSet(Split(Lower(text)))

\* Mutant of Score: the divisor is one more than the number of terms.
ScoreSmoothed(overlap, query_terms) ==
  [num |-> overlap, den |-> Cardinality(query_terms) + 1]

\* overlap / max(len(query_terms), 1), kept as a fraction
Score(overlap, query_terms) ==
  [num |-> overlap,
   den |-> IF Cardinality(query_terms) > 1 THEN Cardinality(query_terms) ELSE 1]

\* x > y for two scores
Greater(x, y) == x.num * y.den > y.num * x.den

\* the chunks of all courses, in the order the two loops visit them
RECURSIVE AllChunks(_)
AllChunks(data) ==
  IF data = <<>> THEN <<>> ELSE Head(data).value \o AllChunks(Tail(data))

\* Mutant of Scored: chunks with overlap 0 are kept.
ScoredAll(data, query_terms) ==
  LET all == AllChunks(data)
  IN [i \in 1..Len(all) |->
        [score |-> Score(Cardinality(query_terms \cap Terms(all[i].content)),
                         query_terms),
         chunk |-> all[i]]]

\* lines 59-65: the (score, chunk) pairs of the chunks with overlap > 0
Scored(data, query_terms) ==
  LET all == AllChunks(data)
      overlap(chunk) == Cardinality(query_terms \cap Terms(chunk.content))
  IN SelectSeq([i \in 1..Len(all) |->
                  [score |-> Score(overlap(all[i]), query_terms),
                   chunk |-> all[i]]],
               LAMBDA p : p.score.num > 0)

\* One step of the sort: p goes behind every pair whose score is not lower.
InsertDesc(sorted, p) ==
  LET keep == Cardinality({i \in 1..Len(sorted) :
                             ~Greater(p.score, sorted[i].score)})
  IN SubSeq(sorted, 1, keep) \o <<p>> \o SubSeq(sorted, keep + 1, Len(sorted))

\* list.sort(key=score, reverse=True): descending, equal scores keep their order
RECURSIVE SortDesc(_)
SortDesc(scored) ==
  IF scored = <<>> THEN <<>>
  ELSE InsertDesc(SortDesc(SubSeq(scored, 1, Len(scored) - 1)),
                  scored[Len(scored)])

\* Mutant of Slice: the list is not cut.
SliceAll(seq, k) == seq

\* seq[:k]
Slice(seq, k) ==
  IF k >= 0 THEN SubSeq(seq, 1, IF k < Len(seq) THEN k ELSE Len(seq))
  ELSE SubSeq(seq, 1, IF Len(seq) + k > 0 THEN Len(seq) + k ELSE 0)

\* retrieve(query, top_k) on the store `data`
retrieve(data, query, top_k) ==
  LET sorted == SortDesc(Scored(data, Terms(query)))
      top == Slice(sorted, top_k)
  IN [i \in 1..Len(top) |-> top[i].chunk]

(***************************************************************************)
(* generate_response, list_courses, the endpoints                          *)
(***************************************************************************)

Fallback ==
  <<"I", " ", "c", "o", "u", "l", "d", "n", "'", "t", " ", "f", "i", "n",
    "d", " ", "r", "e", "l", "e", "v", "a", "n", "t", " ", "c", "o", "u",
    "r", "s", "e", " ", "m", "a", "t", "e", "r", "i", "a", "l", " ", "f",
    "o", "r", " ", "y", "o", "u", "r", " ", "q", "u", "e", "s", "t", "i",
    "o", "n", ".">>

LeadIn ==
  <<"B", "a", "s", "e", "d", " ", "o", "n", " ", "t", "h", "e", " ", "c",
    "o", "u", "r", "s", "e", " ", "m", "a", "t", "e", "r", "i", "a", "l",
    "s", ":", "\n", "\n">>

Trailer ==
  <<"\n", "\n", "T", "h", "i", "s", " ", "i", "n", "f", "o", "r", "m", "a",
    "t", "i", "o", "n", " ", "i", "s", " ", "r", "e", "l", "e", "v", "a",
    "n", "t", " ", "t", "o", " ", "y", "o", "u", "r", " ", "q", "u", "e",
    "r", "y", ":", " ", "\"">>

\* Mutant of ContextPart: the line holds the content only.
ContextPartContentOnly(chunk) == chunk.content

\* f"[{chunk.title}]: {chunk.content}"
ContextPart(chunk) == <<"[">> \o chunk.title \o <<"]", ":", " ">> \o chunk.content

\* Mutant of generate_response: an empty list is not told apart.
generate_response_no_fallback(query, chunks) ==
  LET context_parts == [i \in 1..Len(chunks) |-> ContextPart(chunks[i])]
      context == Join(<<"\n">>, context_parts)
  IN LeadIn \o context \o Trailer \o query \o <<"\"">>

\* generate_response(query, chunks)
generate_response(query, chunks) ==
  IF chunks = <<>> THEN Fallback
  ELSE LET context_parts == [i \in 1..Len(chunks) |-> ContextPart(chunks[i])]
           context == Join(<<"\n">>, context_parts)
       IN LeadIn \o context \o Trailer \o query \o <<"\"">>

\* Mutant of list_courses: courses without chunks are left out.
list_courses_with_chunks(data) ==
  LET kept == SelectSeq(data, LAMBDA entry : entry.value # <<>>)
  IN [i \in 1..Len(kept) |->
        [id |-> kept[i].key,
         title |-> kept[i].value[1].title,
         num_chunks |-> Len(kept[i].value)]]

\* list_courses() on the store `data`
list_courses(data) ==
  [i \in 1..Len(data) |->
     [id |-> data[i].key,
      title |-> IF data[i].value # <<>> THEN data[i].value[1].title
                ELSE data[i].key,
      num_chunks |-> Len(data[i].value)]]

\* the status of a response and of HTTPException(status_code=422)
OK == 200

Unprocessable == 422

\* the answer and the sources of a response for the chunks retrieved
Answered(request, chunks) ==
  [status_code |-> OK,
   answer |-> generate_response(request.question, chunks),
   sources |-> [i \in 1..Len(chunks) |->
                  [course_id |-> chunks[i].course_id,
                   title |-> chunks[i].title,
                   chunk_index |-> chunks[i].chunk_index]]]

\* Mutant of query: only the empty question is rejected.
query_rejects_empty_only(data, request) ==
  IF request.question = <<>>
  THEN [status_code |-> Unprocessable]
  ELSE Answered(request, retrieve(data, request.question,
                                  Get(request, "top_k", DefaultTopK)))

\* Mutant of query: the request's top_k is not handed to retrieve.
query_default_top_k(data, request) ==
  IF Strip(request.question) = <<>>
  THEN [status_code |-> Unprocessable]
  ELSE Answered(request, retrieve(data, request.question, DefaultTopK))

\* Mutant of query: a question that retrieves nothing is an error.
query_not_found(data, request) ==
  LET chunks == retrieve(data, request.question,
                         Get(request, "top_k", DefaultTopK))
  IN IF Strip(request.question) = <<>>
     THEN [status_code |-> Unprocessable]
     ELSE IF chunks = <<>> THEN [status_code |-> 404]
     ELSE Answered(request, chunks)

\* query(request) of app.py on the store `data`
query(data, request) ==
  IF Strip(request.question) = <<>>
  THEN [status_code |-> Unprocessable]
  ELSE LET chunks == retrieve(data, request.question,
                              Get(request, "top_k", DefaultTopK))
           answer == generate_response(request.question, chunks)
           sources == [i \in 1..Len(chunks) |->
                         [course_id |-> chunks[i].course_id,
                          title |-> chunks[i].title,
                          chunk_index |-> chunks[i].chunk_index]]
       IN [status_code |-> OK, answer |-> answer, sources |-> sources]

(***************************************************************************)
(* truncate of quality_demo/text_utils.py                                  *)
(***************************************************************************)

\* the defaults of the parameters max_length and suffix
DefaultMaxLength == 80

DefaultSuffix == <<".", ".", ".">>

\* truncate(text, max_length, suffix)
truncate(text, max_length, suffix) ==
  IF Len(text) <= max_length THEN text
  ELSE Slice(text, max_length - Len(suffix)) \o suffix

(***************************************************************************)
(* Inputs                                                                  *)
(***************************************************************************)

\* courses per load_courses call
MaxCourses == 2

\* words per course text of the chunking runs
MaxWords == 3

\* the largest top_k tried, and the least is its negative
MaxTopK == 2

\* chunks per generate_response call
MaxChunks == 2

\* characters of a text handed to truncate, and the largest max_length
MaxTextLen == 3

MaxMaxLength == 4

\* the sequences over S of length at most n
SeqUpTo(S, n) == UNION {[1..k -> S] : k \in 0..n}

ml == <<"m", "l">>

dl == <<"d", "l">>

\* a word as long as the chunk size: no chunk text holds it and another word
LongWord == Rep("c", ChunkLimit)

\* Courses for the endpoints: a one-chunk course, a course of the three
\* chunks "B", LongWord, "a", and a record without content for the first id.
ApiRecords ==
  {[id |-> ml, title |-> <<"M", "L">>, content |-> <<"a", " ", "B">>],
   [id |-> dl, title |-> <<"D", "L">>,
    content |-> <<"B", " ">> \o LongWord \o <<" ", "a">>],
   [id |-> ml, title |-> <<"M", "2">>]}

ApiInputs == SeqUpTo(ApiRecords, MaxCourses)

\* Courses for runs of loads: the above and another text for the first id,
\* records without title (with and without words) and a record without id.
LoadRecords ==
  ApiRecords
  \cup {[id |-> ml, title |-> <<"M", "2">>, content |-> <<"b">>],
        [id |-> ml, content |-> <<>>],
        [id |-> dl, content |-> <<"a">>],
        [title |-> <<"D", "L">>, content |-> <<"a">>]}

LoadInputs == SeqUpTo(LoadRecords, MaxCourses)

\* Word lengths around the chunk size and around half of it.
WordLens ==
  {1, ChunkLimit \div 2 - 1, ChunkLimit \div 2, ChunkLimit - 1, ChunkLimit,
   ChunkLimit + 1}

ChunkWords == {Rep("a", n) : n \in WordLens}

\* how the words of a text are laid out: single spaces, or mixed whitespace
\* around and between them
Layouts ==
  {[lead |-> <<>>, sep |-> <<" ">>, trail |-> <<>>],
   [lead |-> <<" ", "\n">>, sep |-> <<"\t", " ">>, trail |-> <<" ">>]}

Render(ws, layout) == layout.lead \o Join(layout.sep, ws) \o layout.trail

ChunkTexts ==
  {Render(ws, layout) : ws \in SeqUpTo(ChunkWords, MaxWords), layout \in Layouts}

\* one course with every text, with and without title, and without content
ChunkRecords ==
  {[id |-> ml, title |-> <<"M", "L">>, content |-> t] : t \in ChunkTexts}
  \cup {[id |-> ml, content |-> t] : t \in ChunkTexts}
  \cup {[id |-> ml, title |-> <<"M", "L">>], [id |-> ml]}

\* questions: no term, one term, two terms in mixed case, an unknown term,
\* three terms with extra whitespace
Questions ==
  {<<>>, <<"a">>, <<"A", " ", "b">>, <<"z">>,
   <<"b", " ", " ">> \o LongWord \o <<" ", "a">>}

TopKs == (-MaxTopK)..MaxTopK

RetrieveArgs ==
  {[query |-> q] : q \in Questions}
  \cup {[query |-> q, top_k |-> k] : q \in Questions, k \in TopKs}

\* requests: also a whitespace-only question
QueryRequests ==
  {[question |-> q] : q \in Questions \cup {<<" ", "\n">>}}
  \cup {[question |-> q, top_k |-> k] :
          q \in Questions \cup {<<" ", "\n">>}, k \in (-1)..1}

\* chunks handed to generate_response: two of one course and title, one of
\* them with a line break in its content, and a chunk without content
AnswerChunks ==
  {CourseChunk(ml, <<"M", "L">>, <<"a", " ", "B">>, 0),
   CourseChunk(ml, <<"M", "L">>, <<"b", "\n", "a">>, 1),
   CourseChunk(dl, <<"D", "L">>, <<>>, 0)}

\* questions for generate_response: also whitespace only, and a quoted word
AnswerQuestions ==
  Questions \cup {<<" ", "\n">>, <<"\"", "a", "\"">>}

\* Courses for the comparison of queries: words in both cases, and words
\* that hold a term of the queries inside a longer token
TermRecords ==
  {[id |-> ml, title |-> <<"M", "L">>,
    content |-> <<"A", " ", "b", " ", "a", "b">>],
   [id |-> dl, title |-> <<"D", "L">>,
    content |-> <<"A", "B", " ", "b", "\n", "B", "a">>]}

TermInputs == SeqUpTo(TermRecords, MaxCourses)

\* queries in groups of one term set: {a}, {a, b}, {ab}, and their top_k
TermQueries ==
  {<<"a">>, <<"A">>, <<" ", "a", "\t", "A", " ">>,
   <<"a", " ", "b">>, <<"B", " ", "a">>, <<"b", " ", " ", "A", "\n", "b">>,
   <<"a", "b">>, <<"A", "b", " ", "a", "B">>}

TermArgs ==
  {[query |-> q] : q \in TermQueries}
  \cup {[query |-> q, top_k |-> k] : q \in TermQueries, k \in 1..MaxTopK}

\* requests and chunk lists for runs of every call: a question with a
\* match, one without, a blank one
FrameRequests ==
  {[question |-> <<"a">>], [question |-> <<"z">>, top_k |-> 1],
   [question |-> <<" ", "\n">>]}

FrameChunks == {<<>>, <<CourseChunk(ml, <<"M", "L">>, <<"a", " ", "B">>, 0)>>}

\* texts for truncate: short ones, and one longer than the default length
TruncateTexts ==
  SeqUpTo({"a", "b"}, MaxTextLen) \cup {Rep("a", DefaultMaxLength + 1)}

TruncateSuffixes == {<<>>, <<".">>, DefaultSuffix}

TruncateArgs ==
  {[text |-> t] : t \in TruncateTexts}
  \cup {[text |-> t, max_length |-> n] :
          t \in TruncateTexts, n \in 0..MaxMaxLength}
  \cup {[text |-> t, max_length |-> n, suffix |-> x] :
          t \in TruncateTexts, n \in 0..MaxMaxLength, x \in TruncateSuffixes}

\* Courses for loads that run step by step next to readers: two courses
\* of one chunk and a record without id.
RaceRecords ==
  {[id |-> ml, title |-> <<"M", "L">>, content |-> <<"a", " ", "B">>],
   [id |-> dl, title |-> <<"D", "L">>, content |-> <<"b">>],
   [title |-> <<"D", "L">>, content |-> <<"a">>]}

RaceInputs == SeqUpTo(RaceRecords, MaxCourses)

\* what the readers next to a load ask
RaceArgs == {[query |-> <<"a">>], [query |-> <<"A", " ", "b">>, top_k |-> 1]}

(***************************************************************************)
(* The calls                                                               *)
(***************************************************************************)

\* the callers that may be inside load_courses at the same time
Loaders == {"first", "second"}

\* a caller that is not inside load_courses
Idle == [pc |-> "idle"]

\* a caller that has not run load_courses to its end yet, and the call it
\* has run to its end
NoCall == [ended |-> FALSE]

Ended(courses, ok) == [ended |-> TRUE, courses |-> courses, ok |-> ok]

Init ==
  /\ COURSE_DATA = <<>>
  /\ loaded = [courses |-> <<>>, complete |-> TRUE]
  /\ last = [op |-> "start"]
  /\ loading = [t \in Loaders |-> Idle]
  /\ finished = [t \in Loaders |-> NoCall]

\* load_courses(courses); loaded records the input and whether the call returned
LoadCourses(courses) ==
  LET r == load_courses(courses)
  IN /\ COURSE_DATA' = r.data
     /\ loaded' = [courses |-> courses, complete |-> r.ok]
     /\ last' = [op |-> "load_courses", raised |-> ~r.ok]
     /\ UNCHANGED <<loading, finished>>

\* COURSE_DATA.clear()
Clear ==
  /\ COURSE_DATA' = <<>>
  /\ loaded' = [courses |-> <<>>, complete |-> TRUE]
  /\ last' = [op |-> "clear"]
  /\ UNCHANGED <<loading, finished>>

\* retrieve(query) or retrieve(query, top_k)
Retrieve(args) ==
  /\ last' = [op |-> "retrieve", args |-> args,
              ret |-> retrieve(COURSE_DATA, args.query,
                               Get(args, "top_k", DefaultTopK))]
  /\ UNCHANGED <<COURSE_DATA, loaded, loading, finished>>

\* POST /api/query
Query(request) ==
  /\ last' = [op |-> "query", request |-> request,
              response |-> query(COURSE_DATA, request)]
  /\ UNCHANGED <<COURSE_DATA, loaded, loading, finished>>

\* Mutant of Courses: the entries are taken out of the dict as they are
\* listed.
CoursesPopping ==
  /\ last' = [op |-> "courses", ret |-> list_courses(COURSE_DATA)]
  /\ COURSE_DATA' = <<>>
  /\ UNCHANGED <<loaded, loading, finished>>

\* GET /api/courses
Courses ==
  /\ last' = [op |-> "courses", ret |-> list_courses(COURSE_DATA)]
  /\ UNCHANGED <<COURSE_DATA, loaded, loading, finished>>

\* generate_response(query, chunks)
GenerateResponse(question, chunks) ==
  /\ last' = [op |-> "generate_response", query |-> question,
              chunks |-> chunks,
              ret |-> generate_response(question, chunks)]
  /\ UNCHANGED <<COURSE_DATA, loaded, loading, finished>>

\* what load_courses leaves in `last` when it returns or raises
Returned(ok) == [op |-> "load_courses", raised |-> ~ok]

\* Mutant of LoadClear: the call starts without clearing the store.
LoadKeep(t, courses) ==
  /\ loading[t] = Idle
  /\ UNCHANGED COURSE_DATA
  /\ loading' = [loading EXCEPT ![t] =
                   IF courses = <<>> THEN Idle
                   ELSE [pc |-> "insert", courses |-> courses, next |-> 1,
                         before |-> COURSE_DATA]]
  /\ loaded' = [courses |-> courses, complete |-> courses = <<>>]
  /\ last' = IF courses = <<>> THEN Returned(TRUE) ELSE [op |-> "load_step"]
  /\ finished' = IF courses = <<>>
                 THEN [finished EXCEPT ![t] = Ended(courses, TRUE)]
                 ELSE finished

\* load_courses(courses) by the caller t, up to COURSE_DATA.clear(); the
\* call returns here when there is no course
LoadClear(t, courses) ==
  /\ loading[t] = Idle
  /\ COURSE_DATA' = <<>>
  /\ loading' = [loading EXCEPT ![t] =
                   IF courses = <<>> THEN Idle
                   ELSE [pc |-> "insert", courses |-> courses, next |-> 1,
                         before |-> COURSE_DATA]]
  /\ loaded' = [courses |-> courses, complete |-> courses = <<>>]
  /\ last' = IF courses = <<>> THEN Returned(TRUE) ELSE [op |-> "load_step"]
  /\ finished' = IF courses = <<>>
                 THEN [finished EXCEPT ![t] = Ended(courses, TRUE)]
                 ELSE finished

\* one round of the loop of the caller t: the chunks of the next course are
\* built and COURSE_DATA[course_id] is set, or the record raises KeyError;
\* the call returns after the last course
LoadInsert(t) ==
  /\ loading[t].pc = "insert"
  /\ LET call == loading[t]
         r == CourseLoop(<<call.courses[call.next]>>, COURSE_DATA)
         done == ~r.ok \/ call.next = Len(call.courses)
     IN /\ COURSE_DATA' = r.data
        /\ loading' = [loading EXCEPT ![t] =
                         IF done THEN Idle
                         ELSE [call EXCEPT !.next = call.next + 1]]
        /\ loaded' = [courses |-> call.courses, complete |-> done /\ r.ok]
        /\ last' = IF done THEN Returned(r.ok) ELSE [op |-> "load_step"]
        /\ finished' = IF done
                       THEN [finished EXCEPT ![t] = Ended(call.courses, r.ok)]
                       ELSE finished

\* truncate(text), truncate(text, max_length) or
\* truncate(text, max_length, suffix)
Truncate(args) ==
  /\ last' = [op |-> "truncate", args |-> args,
              ret |-> truncate(args.text,
                               Get(args, "max_length", DefaultMaxLength),
                               Get(args, "suffix", DefaultSuffix))]
  /\ UNCHANGED <<COURSE_DATA, loaded, loading, finished>>

\* the only load_courses call of the caller t
LoadOnce(t, courses) == ~finished[t].ended /\ LoadClear(t, courses)

\* the first call of a process: load_courses of one course
FirstLoad(course) == last.op = "start" /\ LoadCourses(<<course>>)

\* the endpoints and the engine's calls on a few courses
Next ==
  \/ \E courses \in ApiInputs : LoadCourses(courses)
  \/ Clear
  \/ \E args \in RetrieveArgs : Retrieve(args)
  \/ \E request \in QueryRequests : Query(request)
  \/ Courses

Spec == Init /\ [][Next]_vars

\* runs of load_courses, clear and list_courses, with records that make a
\* load fail
NextLoad ==
  \/ \E courses \in LoadInputs : LoadCourses(courses)
  \/ Clear
  \/ Courses

SpecLoad == Init /\ [][NextLoad]_vars

\* one load of one course, over texts around the chunk size
NextChunk == \E course \in ChunkRecords : FirstLoad(course)

SpecChunk == Init /\ [][NextChunk]_vars

\* generate_response on chunk lists built by hand, on an empty store and
\* after a load
NextAnswer ==
  \/ \E course \in ApiRecords : FirstLoad(course)
  \/ \E question \in AnswerQuestions,
          chunks \in SeqUpTo(AnswerChunks, MaxChunks) :
       GenerateResponse(question, chunks)

SpecAnswer == Init /\ [][NextAnswer]_vars

\* retrieve with queries that differ in case, order, repetition and
\* whitespace
NextTerms ==
  \/ \E courses \in TermInputs : LoadCourses(courses)
  \/ \E args \in TermArgs : Retrieve(args)

SpecTerms == Init /\ [][NextTerms]_vars

\* every call of the engine and both endpoints, on a few courses
NextFrame ==
  \/ \E courses \in RaceInputs : LoadCourses(courses)
  \/ Clear
  \/ \E args \in RaceArgs : Retrieve(args)
  \/ \E chunks \in FrameChunks : GenerateResponse(<<"a">>, chunks)
  \/ Courses
  \/ \E request \in FrameRequests : Query(request)

SpecFrame == Init /\ [][NextFrame]_vars

\* one caller runs load_courses step by step while retrieve and
\* list_courses are called
NextRace ==
  \/ \E courses \in RaceInputs : LoadClear("first", courses)
  \/ LoadInsert("first")
  \/ \E args \in RaceArgs : Retrieve(args)
  \/ Courses

SpecRace == Init /\ [][NextRace]_vars

\* calls of truncate
NextTruncate == \E args \in TruncateArgs : Truncate(args)

SpecTruncate == Init /\ [][NextTruncate]_vars

\* two callers run one load_courses call each, step by step
NextTwoLoads ==
  \/ \E t \in Loaders, courses \in RaceInputs : LoadOnce(t, courses)
  \/ \E t \in Loaders : LoadInsert(t)

SpecTwoLoads == Init /\ [][NextTwoLoads]_vars

(***************************************************************************)
(* Properties of retrieve                                                  *)
(***************************************************************************)

\* the positions (course, chunk) of the store, and the chunk at a position
Positions ==
  UNION {{<<i, j>> : j \in 1..Len(COURSE_DATA[i].value)} :
           i \in 1..Len(COURSE_DATA)}

ChunkAt(p) == COURSE_DATA[p[1]].value[p[2]]

\* the number of terms of the question that occur in the chunk
Overlap(question, chunk) ==
  Cardinality(Terms(question) \cap Terms(chunk.content))

\* the positions of the chunks sharing a term with the question
Matches(question) ==
  {p \in Positions : Overlap(question, ChunkAt(p)) > 0}

\* p is visited before r: course order, then position in the course
Before(p, r) == p[1] < r[1] \/ (p[1] = r[1] /\ p[2] < r[2])

\* p is ranked ahead of r: a higher score, or the same and visited earlier
Outranks(question, p, r) ==
  \/ Overlap(question, ChunkAt(p)) > Overlap(question, ChunkAt(r))
  \/ /\ Overlap(question, ChunkAt(p)) = Overlap(question, ChunkAt(r))
     /\ Before(p, r)

\* the matching chunks by score descending, ties in the order visited
Ranked(question) ==
  LET ms == Matches(question)
      rank(p) == 1 + Cardinality({r \in ms : Outranks(question, r, p)})
  IN [n \in 1..Cardinality(ms) |-> ChunkAt(CHOOSE p \in ms : rank(p) = n)]

\* the first k elements of seq: none for k <= 0, all for k >= Len(seq)
FirstK(seq, k) ==
  LET n == IF k < 0 THEN 0 ELSE IF k > Len(seq) THEN Len(seq) ELSE k
  IN [i \in 1..n |-> seq[i]]

\* the top_k a retrieve call ran with
TopKOf(args) == Get(args, "top_k", DefaultTopK)

\* C1: retrieve with top_k <= 0 returns the empty sequence, and a query
\* request carrying a top_k <= 0 yields an empty sources list.
C1_NonPositiveTopKEmpty ==
  /\ (last.op = "retrieve" /\ TopKOf(last.args) <= 0) => last.ret = <<>>
  /\ (/\ last.op = "query"
      /\ last.response.status_code = OK
      /\ TopKOf(last.request) <= 0) => last.response.sources = <<>>

\* What holds of the code for C1: top_k = 0 returns nothing, and a negative
\* top_k drops that many chunks from the end of the ranking.
C1_NegativeTopKDropsTail ==
  (last.op = "retrieve" /\ TopKOf(last.args) <= 0) =>
    LET m == Cardinality(Matches(last.args.query))
        k == TopKOf(last.args)
    IN Len(last.ret) = IF k < 0 /\ m + k > 0 THEN m + k ELSE 0

\* C2: for top_k >= 0 (3 when omitted) retrieve returns exactly
\* min(top_k, m) chunks, m the number of chunks of the store sharing a
\* term with the query.
C2_LengthIsMinTopKMatches ==
  (last.op = "retrieve" /\ TopKOf(last.args) >= 0) =>
    LET m == Cardinality(Matches(last.args.query))
        k == TopKOf(last.args)
    IN Len(last.ret) = IF k < m THEN k ELSE m

\* C2 witness: top_k omitted, four chunks match, three are returned
C2_Witness ==
  /\ last.op = "retrieve"
  /\ "top_k" \notin DOMAIN last.args
  /\ Cardinality(Matches(last.args.query)) = DefaultTopK + 1
  /\ Len(last.ret) = DefaultTopK

\* C3: every chunk retrieve returns is a chunk of the store sharing a term
\* with the query, and with no such chunk in the store (an empty store, a
\* query without terms) retrieve returns the empty sequence.
C3_OnlyMatchingChunks ==
  last.op = "retrieve" =>
    /\ \A i \in 1..Len(last.ret) :
         /\ \E p \in Positions : ChunkAt(p) = last.ret[i]
         /\ Overlap(last.args.query, last.ret[i]) > 0
    /\ Matches(last.args.query) = {} => last.ret = <<>>

\* C3 witness: top_k exceeds what is returned, and a chunk of the store
\* with words of its own is left out
C3_Witness ==
  /\ last.op = "retrieve"
  /\ last.ret # <<>>
  /\ Len(last.ret) < TopKOf(last.args)
  /\ \E p \in Positions :
       /\ ChunkAt(p).content # <<>>
       /\ \A i \in 1..Len(last.ret) : last.ret[i] # ChunkAt(p)

\* C4: the result of retrieve is the first top_k elements of the matching
\* chunks ordered by score descending, equal scores in the order visited.
C4_FirstTopKOfRanking ==
  last.op = "retrieve" =>
    last.ret = FirstK(Ranked(last.args.query), TopKOf(last.args))

\* What holds of the code for C4: the statement for top_k >= 0, and for
\* every top_k that the result is an initial part of the ranking.
C4_InitialPartOfRanking ==
  last.op = "retrieve" =>
    /\ last.ret = FirstK(Ranked(last.args.query), Len(last.ret))
    /\ TopKOf(last.args) >= 0 =>
         last.ret = FirstK(Ranked(last.args.query), TopKOf(last.args))

(***************************************************************************)
(* Properties of load_courses                                              *)
(***************************************************************************)

\* the chunks of the store, course by course
StoredChunks == {ChunkAt(p) : p \in Positions}

\* the text of a course record
TextOf(course) == Get(course, "content", <<>>)

\* the text holds no word: every character of it is whitespace
Wordless(text) == \A i \in 1..Len(text) : IsSpace(text[i])

\* the words of the chunks, chunk after chunk
RECURSIVE WordsOfChunks(_)
WordsOfChunks(chunks) ==
  IF chunks = <<>> THEN <<>>
  ELSE Split(Head(chunks).content) \o WordsOfChunks(Tail(chunks))

\* the last record of the input with the given id
LastWithId(courses, id) ==
  courses[CHOOSE i \in 1..Len(courses) :
            /\ courses[i].id = id
            /\ \A j \in (i + 1)..Len(courses) : courses[j].id # id]

\* C5: every chunk held in the store has non-empty trimmed content.
C5_ContentNonEmptyTrimmed ==
  \A chunk \in StoredChunks :
    chunk.content # <<>> /\ Strip(chunk.content) = chunk.content

\* What holds of the code for C5: content is trimmed, and only the first
\* chunk of a course can be empty, when the first word of the text does not
\* fit into an empty chunk text.
C5_EmptyOnlyBeforeLongFirstWord ==
  \A p \in Positions :
    /\ Strip(ChunkAt(p).content) = ChunkAt(p).content
    /\ ChunkAt(p).content = <<>> =>
         /\ p[2] = 1
         /\ loaded.complete
         /\ LET text == TextOf(LastWithId(loaded.courses, COURSE_DATA[p[1]].key))
            IN Len(Split(text)[1]) + 1 > ChunkLimit

\* C6: the words of a course's chunks, taken in chunk order, are exactly
\* the words of the course text, in order.
C6_ChunksKeepWords ==
  (loaded.complete /\ loaded.courses # <<>>) =>
    WordsOfChunks(COURSE_DATA[1].value) = Split(TextOf(loaded.courses[1]))

\* C6 witness: a text laid out with mixed whitespace whose three words go
\* to two chunks with words
C6_Witness ==
  /\ loaded.complete /\ loaded.courses # <<>>
  /\ Len(Split(TextOf(loaded.courses[1]))) = 3
  /\ IsSpace(TextOf(loaded.courses[1])[1])
  /\ Len(COURSE_DATA[1].value) = 2
  /\ \A i \in 1..2 : COURSE_DATA[1].value[i].content # <<>>

\* C7: every chunk has content of at most 200 characters, unless the
\* content is a single word that alone exceeds 200 characters.
C7_ContentWithinLimit ==
  \A chunk \in StoredChunks :
    \/ Len(chunk.content) <= ChunkLimit
    \/ \A i \in 1..Len(chunk.content) : ~IsSpace(chunk.content[i])

\* C7 witness: a course with a chunk of one word above the limit and a
\* chunk of several words one character below it
C7_Witness ==
  /\ \E chunk \in StoredChunks : Len(chunk.content) > ChunkLimit
  /\ \E chunk \in StoredChunks :
       /\ Len(chunk.content) = ChunkLimit - 1
       /\ \E i \in 1..Len(chunk.content) : IsSpace(chunk.content[i])

\* C8: for every course of the store the chunk at position i (from 0) has
\* chunk_index i.
C8_IndicesContiguous ==
  \A p \in Positions : ChunkAt(p).chunk_index = p[2] - 1

\* C8 witness: a load left two courses, one of them with three chunks
C8_Witness ==
  /\ last.op = "load_courses"
  /\ Len(COURSE_DATA) = 2
  /\ \E i \in 1..2 : Len(COURSE_DATA[i].value) = 3

\* C9: after completed loads and clears the ids of the store are the ids of
\* the input of the last load (none after a clear or at the start), each
\* once, and the chunks of each course are those of its last record there.
C9_StoreIsLastInput ==
  loaded.complete =>
    /\ ToSet(Keys(COURSE_DATA)) =
         {loaded.courses[i].id : i \in 1..Len(loaded.courses)}
    /\ \A i, j \in 1..Len(COURSE_DATA) :
         COURSE_DATA[i].key = COURSE_DATA[j].key => i = j
    /\ \A i \in 1..Len(COURSE_DATA) :
         COURSE_DATA[i].value =
           CourseChunks(LastWithId(loaded.courses, COURSE_DATA[i].key)).chunks

\* C9 witness: a completed load of one course
C9_Witness ==
  /\ last.op = "load_courses"
  /\ loaded.complete
  /\ Len(loaded.courses) = 1
  /\ Len(COURSE_DATA) = 1

\* C10: a loaded course is a key of the store, and its chunk sequence is
\* empty exactly when its content holds no word.
C10_EmptyIffWordless ==
  (loaded.complete /\ loaded.courses # <<>>) =>
    /\ Len(COURSE_DATA) = 1
    /\ COURSE_DATA[1].key = loaded.courses[1].id
    /\ COURSE_DATA[1].value = <<>> <=> Wordless(TextOf(loaded.courses[1]))

\* C10 witness: a text of whitespace only is loaded and has no chunks
C10_Witness ==
  /\ loaded.complete /\ loaded.courses # <<>>
  /\ TextOf(loaded.courses[1]) # <<>>
  /\ Wordless(TextOf(loaded.courses[1]))
  /\ COURSE_DATA[1].value = <<>>

(***************************************************************************)
(* Properties of list_courses                                              *)
(***************************************************************************)

\* C11: list_courses returns one entry per course id of the store, in the
\* order of the store; num_chunks is the length of the course's chunk
\* sequence (possibly 0), title is the title of its first chunk, or the
\* course id when it has no chunks; on an empty store the result is empty.
C11_OneEntryPerCourse ==
  last.op = "courses" =>
    /\ Len(last.ret) = Len(COURSE_DATA)
    /\ \A i, j \in 1..Len(last.ret) : last.ret[i].id = last.ret[j].id => i = j
    /\ \A i \in 1..Len(COURSE_DATA) :
         LET entry == last.ret[i]
             chunks == COURSE_DATA[i].value
         IN /\ entry.id = COURSE_DATA[i].key
            /\ entry.num_chunks = Len(chunks)
            /\ chunks # <<>> => entry.title = chunks[1].title
            /\ chunks = <<>> => entry.title = entry.id
    /\ COURSE_DATA = <<>> => last.ret = <<>>

\* C11 witness: two courses are listed, the first with three chunks and its
\* title, the second without chunks and with its id as title
C11_Witness ==
  /\ last.op = "courses"
  /\ Len(last.ret) = 2
  /\ last.ret[1].num_chunks = 3 /\ last.ret[1].title # last.ret[1].id
  /\ last.ret[2].num_chunks = 0 /\ last.ret[2].title = last.ret[2].id

(***************************************************************************)
(* Properties of generate_response                                         *)
(***************************************************************************)

\* sub occurs in text
Contains(text, sub) ==
  \E i \in 0..(Len(text) - Len(sub)) : SubSeq(text, i + 1, i + Len(sub)) = sub

\* the text without its first `from` and its last `to` characters
Between(text, from, to) == SubSeq(text, from + 1, Len(text) - to)

\* one line "[title]: content" per chunk, a line break between two lines
RECURSIVE Block(_)
Block(chunks) ==
  LET line == <<"[">> \o Head(chunks).title \o <<"]", ":", " ">>
                \o Head(chunks).content
  IN IF Len(chunks) = 1 THEN line
     ELSE line \o <<"\n">> \o Block(Tail(chunks))

\* C12: generate_response(q, []) returns the same fixed message, which
\* contains "couldn't find", whatever q is and whatever the store holds.
C12_FallbackForNoChunks ==
  (last.op = "generate_response" /\ last.chunks = <<>>) =>
    /\ last.ret = Fallback
    /\ Contains(Lower(last.ret),
                <<"c", "o", "u", "l", "d", "n", "'", "t", " ", "f", "i", "n",
                  "d">>)

\* C12 witness: the fallback for a question with words, on a loaded store
C12_Witness ==
  /\ last.op = "generate_response"
  /\ last.chunks = <<>>
  /\ Split(last.query) # <<>>
  /\ COURSE_DATA # <<>>
  /\ last.ret = Fallback

\* C13: for a non-empty chunk sequence generate_response returns the
\* lead-in, one line "[title]: content" per chunk in input order joined by
\* line breaks, and the trailing sentence with q in double quotes; so the
\* answer contains every chunk's title and content and q.
C13_LeadInLinesTrailer ==
  (last.op = "generate_response" /\ last.chunks # <<>>) =>
    LET quoted == <<"\"">> \o last.query \o <<"\"">>
        trailer == SubSeq(Trailer, 1, Len(Trailer) - 1)
    IN /\ SubSeq(last.ret, 1, Len(LeadIn)) = LeadIn
       /\ Between(last.ret, Len(last.ret) - Len(quoted), 0) = quoted
       /\ Between(last.ret, Len(last.ret) - Len(quoted) - Len(trailer),
                  Len(quoted)) = trailer
       /\ Between(last.ret, Len(LeadIn), Len(trailer) + Len(quoted)) =
            Block(last.chunks)
       /\ \A i \in 1..Len(last.chunks) :
            /\ Contains(last.ret, last.chunks[i].title)
            /\ Contains(last.ret, last.chunks[i].content)
       /\ Contains(last.ret, last.query)

\* C13 witness: two chunks of one title make two lines with that title
C13_Witness ==
  /\ last.op = "generate_response"
  /\ Len(last.chunks) = 2
  /\ last.chunks[1] # last.chunks[2]
  /\ last.chunks[1].title = last.chunks[2].title
  /\ Split(last.query) # <<>>
  /\ Contains(last.ret,
              <<"\n", "[">> \o last.chunks[2].title \o <<"]", ":", " ">>
                \o last.chunks[2].content \o <<"\n", "\n">>)

(***************************************************************************)
(* Properties of the query endpoint                                        *)
(***************************************************************************)

\* the question of the request is empty or whitespace only
Blank(request) == Wordless(request.question)

\* C14: a query request whose question is empty or whitespace only is
\* rejected with status 422, for every store and every top_k, and its
\* response carries neither an answer nor sources.
C14_BlankQuestionRejected ==
  (last.op = "query" /\ Blank(last.request)) =>
    /\ last.response.status_code = Unprocessable
    /\ DOMAIN last.response = {"status_code"}

\* C14 witness: a whitespace-only question with a top_k, on a loaded store
C14_Witness ==
  /\ last.op = "query"
  /\ last.request.question # <<>>
  /\ Blank(last.request)
  /\ "top_k" \in DOMAIN last.request
  /\ Positions # {}
  /\ last.response.status_code = Unprocessable

\* C15: for a non-blank question the sources of the response are, in
\* order, the (course_id, title, chunk_index) of the chunks
\* retrieve(question, top_k) returns on the same store, and the answer is
\* generate_response of the question and exactly those chunks.
C15_SourcesFollowRetrieve ==
  (last.op = "query" /\ ~Blank(last.request)) =>
    LET chunks == retrieve(COURSE_DATA, last.request.question,
                           TopKOf(last.request))
        sources == last.response.sources
    IN /\ Len(sources) = Len(chunks)
       /\ \A i \in 1..Len(chunks) :
            /\ sources[i].course_id = chunks[i].course_id
            /\ sources[i].title = chunks[i].title
            /\ sources[i].chunk_index = chunks[i].chunk_index
            /\ DOMAIN sources[i] = {"course_id", "title", "chunk_index"}
       /\ last.response.answer =
            generate_response(last.request.question, chunks)

\* C15 witness: top_k = 1 on a store with several matching chunks of
\* different courses; the source is the best chunk, not the first visited
C15_Witness ==
  /\ last.op = "query"
  /\ ~Blank(last.request)
  /\ TopKOf(last.request) = 1
  /\ Cardinality(Matches(last.request.question)) > 2
  /\ Len(last.response.sources) = 1
  /\ last.response.sources[1].course_id # COURSE_DATA[1].key

\* C16: a query request with a non-blank question gets status 200 on
\* every store, the empty store too; when no chunk matches, the sources
\* are empty and the answer is the fallback.
C16_NonBlankSucceeds ==
  (last.op = "query" /\ ~Blank(last.request)) =>
    /\ last.response.status_code = OK
    /\ DOMAIN last.response = {"status_code", "answer", "sources"}
    /\ Matches(last.request.question) = {} =>
         /\ last.response.sources = <<>>
         /\ last.response.answer = Fallback

\* C16 witness: a question none of the stored chunks shares a term with
C16_Witness ==
  /\ last.op = "query"
  /\ ~Blank(last.request)
  /\ Positions # {}
  /\ Matches(last.request.question) = {}
  /\ last.response.status_code = OK
  /\ last.response.sources = <<>>

(***************************************************************************)
(* Properties of the score                                                 *)
(***************************************************************************)

\* the (score, chunk) pairs the last retrieve call kept before sorting
Retained == Scored(COURSE_DATA, Terms(last.args.query))

\* C20: for every chunk retrieve retains 1 <= overlap <= |query_terms|, so
\* its score overlap / max(|query_terms|, 1) is above 0 and at most 1, and
\* is 1 exactly when every query term occurs in the chunk; the divisor is
\* never zero, also for a query without terms.
C20_ScoreInUnitInterval ==
  last.op = "retrieve" =>
    LET query_terms == Terms(last.args.query)
    IN /\ \A i \in 1..Len(Retained) :
            LET score == Retained[i].score
                chunk == Retained[i].chunk
            IN /\ score.num = Overlap(last.args.query, chunk)
               /\ 1 <= score.num /\ score.num <= Cardinality(query_terms)
               /\ score.den = Cardinality(query_terms)
               /\ 0 < score.num /\ score.num <= score.den
               /\ score.num = score.den <=>
                    query_terms \subseteq Terms(chunk.content)
       /\ \A i \in 1..Len(last.ret) :
            \E j \in 1..Len(Retained) : Retained[j].chunk = last.ret[i]
       /\ \A p \in Positions :
            Score(Overlap(last.args.query, ChunkAt(p)), query_terms).den > 0

\* C20 witness: a query of two terms retains a chunk holding both and a
\* chunk holding one of them
C20_Witness ==
  /\ last.op = "retrieve"
  /\ Cardinality(Terms(last.args.query)) = 2
  /\ \E i, j \in 1..Len(Retained) :
       /\ Retained[i].score = [num |-> 2, den |-> 2]
       /\ Retained[j].score = [num |-> 1, den |-> 2]
  /\ last.ret # <<>>

(***************************************************************************)
(* Properties of a load that fails                                         *)
(***************************************************************************)

\* C19: load is all-or-nothing for its caller: a load_courses call that
\* fails on a record (no id, or no title with content that has words)
\* leaves the store as it was before the call (a call that fails has no
\* full result to leave instead); the store never holds only the records
\* before the malformed one with the previous contents gone.
C19_FailedLoadAllOrNothing ==
  [][(last'.op = "load_courses" /\ last'.raised) =>
       COURSE_DATA' = COURSE_DATA]_vars

\* What holds of the code for C19: after a call that failed the store holds
\* the records before the malformed one and nothing of what it held.
C19_FailedLoadKeepsPrefix ==
  (last.op = "load_courses" /\ last.raised) =>
    \E n \in 0..(Len(loaded.courses) - 1) :
      /\ load_courses(SubSeq(loaded.courses, 1, n)).ok
      /\ ~load_courses(SubSeq(loaded.courses, 1, n + 1)).ok
      /\ COURSE_DATA = load_courses(SubSeq(loaded.courses, 1, n)).data

(***************************************************************************)
(* Properties of a load next to readers                                    *)
(***************************************************************************)

\* the store after the rounds the call in progress has run so far
BuiltSoFar(call) == load_courses(SubSeq(call.courses, 1, call.next - 1)).data

\* C18: load is not atomic for readers: a retrieve or list_courses call
\* that runs between two steps of a load (the clear, then one insertion
\* per course) sees the store as rebuilt so far, that is the courses
\* already inserted and nothing of the store before the load; the witness
\* is a reader that sees neither the store before nor the store after.
C18_ReaderSeesRebuildSoFar ==
  \A t \in Loaders :
    loading[t].pc = "insert" =>
      /\ last.op = "courses" =>
           last.ret = list_courses(BuiltSoFar(loading[t]))
      /\ last.op = "retrieve" =>
           last.ret = retrieve(BuiltSoFar(loading[t]), last.args.query,
                               TopKOf(last.args))

\* C18 witness: a load of two courses replaces a store with courses;
\* list_courses runs after the first insertion and returns one course,
\* which is neither the list before the load nor the list after it
C18_Witness ==
  LET call == loading["first"]
  IN /\ call.pc = "insert"
     /\ call.before # <<>>
     /\ load_courses(call.courses).ok
     /\ Len(load_courses(call.courses).data) = 2
     /\ last.op = "courses"
     /\ Len(last.ret) = 1
     /\ last.ret # list_courses(call.before)
     /\ last.ret # list_courses(load_courses(call.courses).data)

\* a reader finds the store empty in the middle of such a load
C18_ReaderSeesEmptyStore ==
  LET call == loading["first"]
  IN /\ call.pc = "insert"
     /\ call.before # <<>>
     /\ load_courses(call.courses).ok
     /\ last.op = "retrieve"
     /\ last.ret = <<>>
     /\ retrieve(call.before, last.args.query, TopKOf(last.args)) # <<>>
     /\ retrieve(load_courses(call.courses).data, last.args.query,
                 TopKOf(last.args)) # <<>>

(***************************************************************************)
(* Properties of the query terms                                           *)
(***************************************************************************)

\* the words of a text, each in lower case
TermSet(text) == {Lower(Split(text)[i]) : i \in 1..Len(Split(text))}

\* C21: retrieve depends on the query only through its set of lower-cased
\* whitespace-separated terms: on the same store and with the same top_k
\* every query with the same term set returns the same result, and every
\* chunk returned holds a whole word that equals a term up to letter case.
C21_SameTermsSameResult ==
  last.op = "retrieve" =>
    /\ \A q \in TermQueries :
         TermSet(q) = TermSet(last.args.query) =>
           retrieve(COURSE_DATA, q, TopKOf(last.args)) = last.ret
    /\ \A i \in 1..Len(last.ret) :
         TermSet(last.ret[i].content) \cap TermSet(last.args.query) # {}

\* C21 witness: a query with upper case, a repeated term and extra
\* whitespace returns a chunk that holds the term in the other case, and
\* leaves out a chunk that holds the term only inside longer words
C21_Witness ==
  /\ last.op = "retrieve"
  /\ Len(Split(last.args.query)) > Cardinality(TermSet(last.args.query))
  /\ \E q \in TermQueries : q # last.args.query /\ Lower(q) = q
                              /\ TermSet(q) = TermSet(last.args.query)
  /\ \E i \in 1..Len(last.ret), v \in TermSet(last.args.query) :
       /\ v \in TermSet(last.ret[i].content)
       /\ v \notin ToSet(Split(last.ret[i].content))
  /\ \E p \in Positions :
       /\ \A i \in 1..Len(last.ret) : last.ret[i] # ChunkAt(p)
       /\ \E w \in TermSet(ChunkAt(p).content), v \in TermSet(last.args.query) :
            Contains(w, v)
  /\ Len(last.ret) < TopKOf(last.args)

(***************************************************************************)
(* Properties of the chunk boundaries                                      *)
(***************************************************************************)

\* the first word of a chunk
FirstWord(chunk) == Split(chunk.content)[1]

\* C22: chunking is greedy: for two consecutive chunks c and d of a course
\* the first word of d did not fit into c, that is
\* len(c.content) + 1 + len(first word of d) + 1 > 200; only the last
\* chunk of a course is closed for lack of words.
C22_NextWordDidNotFit ==
  \A p \in Positions :
    p[2] > 1 =>
      /\ ChunkAt(p).content # <<>>
      /\ Len(ChunkAt(<<p[1], p[2] - 1>>).content) + 1
           + Len(FirstWord(ChunkAt(p))) + 1 > ChunkLimit

\* C22 witness: a chunk of two words is closed with 199 characters before
\* a word of one character, and the chunk after it is the last one
C22_Witness ==
  \E p \in Positions :
    /\ p[2] = 1
    /\ Len(Split(ChunkAt(p).content)) = 2
    /\ Len(ChunkAt(p).content) = ChunkLimit - 1
    /\ Len(COURSE_DATA[p[1]].value) = 2
    /\ Len(ChunkAt(<<p[1], 2>>).content) = 1

(***************************************************************************)
(* Properties of the chunks' owners                                        *)
(***************************************************************************)

\* the records of the last load that reached the store: all of them when
\* the call returned, those before the malformed one when it raised
Inserted ==
  IF loaded.complete THEN loaded.courses
  ELSE SubSeq(loaded.courses, 1,
              CHOOSE n \in 0..(Len(loaded.courses) - 1) :
                /\ load_courses(SubSeq(loaded.courses, 1, n)).ok
                /\ ~load_courses(SubSeq(loaded.courses, 1, n + 1)).ok)

\* C23: after any sequence of loads every chunk stored under key k has
\* course_id k and the title of the record that produced it; when the
\* input holds several records of one id, the store has one entry for the
\* id, and its chunks all come from the last of these records.
C23_ChunksOfLastRecord ==
  /\ \A i, j \in 1..Len(COURSE_DATA) :
       COURSE_DATA[i].key = COURSE_DATA[j].key => i = j
  /\ \A i \in 1..Len(COURSE_DATA) :
       LET k == COURSE_DATA[i].key
           chunks == COURSE_DATA[i].value
           record == LastWithId(Inserted, k)
       IN /\ \A j \in 1..Len(chunks) :
               /\ chunks[j].course_id = k
               /\ chunks[j].title = record.title
          /\ WordsOfChunks(chunks) = Split(TextOf(record))

\* C23 witness: a load of two records of one id with different titles and
\* words left one entry, with the title and the words of the second
C23_Witness ==
  /\ last.op = "load_courses"
  /\ loaded.complete
  /\ Len(loaded.courses) = 2
  /\ loaded.courses[1].id = loaded.courses[2].id
  /\ Split(TextOf(loaded.courses[1])) # <<>>
  /\ Split(TextOf(loaded.courses[2])) # <<>>
  /\ loaded.courses[1].title # loaded.courses[2].title
  /\ Len(COURSE_DATA) = 1
  /\ COURSE_DATA[1].value # <<>>
  /\ COURSE_DATA[1].value[1].title = loaded.courses[2].title

(***************************************************************************)
(* Properties of the calls that read                                       *)
(***************************************************************************)

\* the calls that read the store or nothing
Readers == {"retrieve", "generate_response", "courses", "query"}

\* C24: retrieve, generate_response, list_courses and the query and
\* courses handlers leave the store unchanged, a rejected blank query
\* too: ids, order and every chunk are as before; a step that changes the
\* store is a load or a clear.
C24_ReadersKeepStore ==
  [][/\ last'.op \in Readers => COURSE_DATA' = COURSE_DATA
     /\ COURSE_DATA' # COURSE_DATA => last'.op \in {"load_courses", "clear"}]_vars

\* C24 witness: a blank query was rejected on a store that still holds the
\* two courses of the last load
C24_Witness ==
  /\ last.op = "query"
  /\ Blank(last.request)
  /\ last.response.status_code = Unprocessable
  /\ loaded.complete
  /\ Len(COURSE_DATA) = 2
  /\ COURSE_DATA = load_courses(loaded.courses).data

(***************************************************************************)
(* Properties of two loads at once                                         *)
(***************************************************************************)

\* both callers have run their call to its end, with different inputs and
\* without a malformed record
BothLoaded ==
  /\ \A t \in Loaders : finished[t].ended /\ finished[t].ok
  /\ finished["first"].courses # finished["second"].courses

\* C25: load is a single logical write next to another load: when two
\* load_courses calls with different inputs interleave step by step (the
\* clear, then one insertion per course) and both return, the store is
\* what one of the two calls leaves when it runs alone, never a mix of the
\* courses of both.
C25_OneOfTheTwoLoads ==
  BothLoaded =>
    \E t \in Loaders : COURSE_DATA = load_courses(finished[t].courses).data

\* What holds of the code for C25: every course the store holds after the
\* two calls is a course of one of them, with the chunks that call gives it.
C25_EachCourseOfOneLoad ==
  BothLoaded =>
    \A i \in 1..Len(COURSE_DATA) :
      \E t \in Loaders :
        LET alone == load_courses(finished[t].courses).data
        IN \E j \in 1..Len(alone) : alone[j] = COURSE_DATA[i]

(***************************************************************************)
(* Properties of truncate                                                  *)
(***************************************************************************)

\* the max_length and the suffix a truncate call ran with
MaxLengthOf(args) == Get(args, "max_length", DefaultMaxLength)

SuffixOf(args) == Get(args, "suffix", DefaultSuffix)

\* text ends with suffix
EndsWith(text, suffix) ==
  /\ Len(suffix) <= Len(text)
  /\ SubSeq(text, Len(text) - Len(suffix) + 1, Len(text)) = suffix

\* C26: truncate returns the text unchanged when len(text) <= max_length,
\* and otherwise a string of length exactly max_length that ends with the
\* suffix, for every text, every suffix and every max_length >= 0, also a
\* max_length below len(suffix).
C26_TruncatedToMaxLength ==
  (last.op = "truncate" /\ MaxLengthOf(last.args) >= 0) =>
    IF Len(last.args.text) <= MaxLengthOf(last.args)
    THEN last.ret = last.args.text
    ELSE /\ Len(last.ret) = MaxLengthOf(last.args)
         /\ EndsWith(last.ret, SuffixOf(last.args))

\* What holds of the code for C26: the statement for max_length >=
\* len(suffix); below that the text loses len(suffix) - max_length
\* characters at its end and the whole suffix is appended.
C26_SuffixLongerDropsTail ==
  last.op = "truncate" =>
    LET text == last.args.text
        n == MaxLengthOf(last.args)
        suffix == SuffixOf(last.args)
        cut == Len(suffix) - n
    IN IF Len(text) <= n THEN last.ret = text
       ELSE /\ EndsWith(last.ret, suffix)
            /\ cut <= 0 =>
                 /\ Len(last.ret) = n
                 /\ last.ret = SubSeq(text, 1, n - Len(suffix)) \o suffix
            /\ cut > 0 =>
                 /\ Len(last.ret) > n
                 /\ last.ret =
                      SubSeq(text, 1, IF Len(text) > cut THEN Len(text) - cut
                                      ELSE 0) \o suffix

====
